---- MODULE Spec2Model ----
(***************************************************************************)
(* Minimal perfect hash table over strings ("hash, displace and compress"). *)
(* The module models Build, Lookup, MarshalBinary and UnmarshalBinary of    *)
(* the fingerprint variant (mph.go) and Build/buildInternal of the          *)
(* Bloom-filter variant.  Strings are byte sequences, slices are functions  *)
(* over 0..len-1, a uint64 is four 16-bit limbs (little-endian), a float32  *)
(* load factor is a fixed-point number of millionths.                       *)
(***************************************************************************)
EXTENDS Integers, Sequences, FiniteSets, TLC

VARIABLES keys, loadFactor, ha, hb,
          pc, level0, level0Len, level1, level1Len, buckets, bi, j, seed,
          occ, tmpOcc, keyHashes, res,
          data, dkind, recv, uerr,
          filter, curLf, seenKeys, nilAt, ret

buildVars == <<pc, level0, level0Len, level1, level1Len, buckets, bi, j, seed,
               occ, tmpOcc, keyHashes>>
inputVars == <<keys, loadFactor, ha, hb>>
codecVars == <<data, dkind, recv, uerr>>
bloomVars == <<filter, curLf, seenKeys, nilAt, ret>>
vars == <<keys, loadFactor, ha, hb,
          pc, level0, level0Len, level1, level1Len, buckets, bi, j, seed,
          occ, tmpOcc, keyHashes, res,
          data, dkind, recv, uerr,
          filter, curLf, seenKeys, nilAt, ret>>

(***************************************************************************)
(* Bounds of the model.                                                    *)
(***************************************************************************)
\* the placement hash takes values in 0..HashRange-1
HashRange == 4
\* seeds explored by the fingerprint variant's unbounded seed search
MaxSeed == 3
\* the seed budget of the Bloom-filter variant, scaled down from 100000000
maxSeedAttempts == 1

\* the seed strides of the hash family
Strides == {1, 2}

\* the float32 load factor 1.0 in fixed point (millionths)
LfOne == 1000000

\* the strings of the model: "a", "b", "ab", ""
AllKeys == << <<97>>, <<98>>, <<97, 98>>, << >> >>
Strs == {AllKeys[k] : k \in 1..Len(AllKeys)}
\* the inputs of Build: <<number of keys, load factor>>
Inputs == {<<0, 1000000>>, <<1, 1000000>>, <<1, 250000>>, <<2, 250000>>,
           <<3, 2000000>>, <<3, 375000>>, <<4, 0>>, <<4, 500000>>}

Range(f) == {f[x] : x \in DOMAIN f}

(***************************************************************************)
(* Hash primitives.                                                        *)
(***************************************************************************)
\* murmurSeed(seed).hash(s): a deterministic seeded hash with non-negative
\* values, one function per choice of ha, hb (its source is not part of the
\* files modelled; Build and Lookup use it as a black box)
Hash(sd, s) == (ha[s] + sd * hb[s]) % HashRange

RECURSIVE Xor(_, _)
Xor(a, b) == IF a = 0 THEN b
             ELSE IF b = 0 THEN a
             ELSE ((a + b) % 2) + 2 * Xor(a \div 2, b \div 2)

offset64 == <<8997, 33826, 40164, 52210>>
prime64 == <<435, 0, 256, 0>>

RECURSIVE MulRaw(_, _, _, _)
\* sum of x[i+1] * p[k-i+1] for i in 0..k from index i on
MulRaw(x, p, k, i) == IF i > k THEN 0
                      ELSE x[i + 1] * p[k - i + 1] + MulRaw(x, p, k, i + 1)

\* x * p modulo 2^64 on 16-bit limbs
Mul64(x, p) ==
  LET c0 == MulRaw(x, p, 0, 0)
      c1 == MulRaw(x, p, 1, 0) + c0 \div 65536
      c2 == MulRaw(x, p, 2, 0) + c1 \div 65536
      c3 == MulRaw(x, p, 3, 0) + c2 \div 65536
  IN <<c0 % 65536, c1 % 65536, c2 % 65536, c3 % 65536>>

RECURSIVE fnvFrom(_, _, _)
fnvFrom(hash, bytes, k) ==
  IF k > Len(bytes) THEN hash
  ELSE fnvFrom(Mul64(<<Xor(hash[1], bytes[k]), hash[2], hash[3], hash[4]>>, prime64),
               bytes, k + 1)

fnv64a(bytes) == fnvFrom(offset64, bytes, 1)

fnvTable == [s \in Strs |-> fnv64a(s)]

(***************************************************************************)
(* Build (fingerprint variant).                                            *)
(***************************************************************************)
Clamp(lf) == IF lf > LfOne \/ lf = 0 THEN LfOne ELSE lf

TableLen(n, lf) == (n * LfOne) \div lf

RECURSIVE BucketVals(_, _, _, _)
\* the indices i >= from of ks with hash(ks[i]) % m0 = n, in input order
BucketVals(ks, m0, n, from) ==
  IF from >= Len(ks) THEN << >>
  ELSE IF Hash(0, ks[from + 1]) % m0 = n
       THEN <<from>> \o BucketVals(ks, m0, n, from + 1)
       ELSE BucketVals(ks, m0, n, from + 1)

SparseBuckets(ks, m0) == [n \in 0..(m0 - 1) |-> BucketVals(ks, m0, n, 0)]

NonEmpty(sparse) == {[n |-> n, vals |-> sparse[n]] : n \in {x \in DOMAIN sparse : Len(sparse[x]) > 0}}

\* the orders sort.Sort(bySize(...)) may produce: descending size, ties in any order
SortedBySize(bs) ==
  {sq \in [1..Cardinality(bs) -> bs] :
     /\ \A x, y \in 1..Cardinality(bs) : x # y => sq[x] # sq[y]
     /\ \A x, y \in 1..Cardinality(bs) : x < y => Len(sq[x].vals) >= Len(sq[y].vals)}

\* a seed search that starts at 1
StartSeedOne == 0 + 1

\* "var seed murmurSeed": the first seed tried for a bucket
StartSeed == 0

\* a rollback that forgets to clear the tentative bits
RollBackNone(o, tmp) == o

\* "for _, n := range tmpOcc { occ[n] = false }"
RollBack(o, tmp) == [n \in DOMAIN o |-> IF n \in Range(tmp) THEN FALSE ELSE o[n]]

\* a store of the 1-based position instead of the index
WriteLevel1OneBased(l1, n, i) == [l1 EXCEPT ![n] = i + 1]

\* "level1[n] = uint32(i)"
WriteLevel1(l1, n, i) == [l1 EXCEPT ![n] = i]

\* a store that drops the seed found by the search
StoreSeedDropped(l0, n, sd) == l0

\* "level0[int(bucket.n)] = uint32(seed)"
StoreSeed(l0, n, sd) == [l0 EXCEPT ![n] = sd]

Slot(sd, s, m1) == Hash(sd, s) % m1

BuildStart ==
  /\ pc = "start"
  /\ LET lf == Clamp(loadFactor)
         tableLen == TableLen(Len(keys), lf)
         m0 == tableLen \div 4
     IN IF m0 = 0 /\ Len(keys) > 0
        THEN \* integer divide by zero at "% level0Len"
             /\ pc' = "panic"
             /\ UNCHANGED <<level0, level0Len, level1, level1Len, buckets, bi, j,
                            seed, occ, tmpOcc, keyHashes>>
        ELSE /\ level0' = [n \in 0..(m0 - 1) |-> 0]
             /\ level0Len' = m0
             /\ level1' = [n \in 0..(tableLen - 1) |-> 0]
             /\ level1Len' = tableLen
             /\ buckets' \in SortedBySize(NonEmpty(SparseBuckets(keys, m0)))
             /\ occ' = [n \in 0..(tableLen - 1) |-> FALSE]
             /\ tmpOcc' = << >>
             /\ bi' = 1
             /\ j' = 1
             /\ seed' = StartSeed
             /\ pc' = "place"
             /\ UNCHANGED keyHashes
  /\ UNCHANGED <<inputVars, res, codecVars, bloomVars>>

\* one iteration of "for _, i := range bucket.vals" whose slot is free; the
\* last iteration of a bucket stores the seed and enters the next bucket
\* ("var seed murmurSeed", "tmpOcc = tmpOcc[:0]")
PlaceKey ==
  /\ pc = "place"
  /\ bi <= Len(buckets)
  /\ LET bucket == buckets[bi]
         i == bucket.vals[j]
         n == Slot(seed, keys[i + 1], level1Len)
     IN /\ ~occ[n]
        /\ occ' = [occ EXCEPT ![n] = TRUE]
        /\ level1' = WriteLevel1(level1, n, i)
        /\ IF j = Len(bucket.vals)
           THEN /\ level0' = StoreSeed(level0, bucket.n, seed)
                /\ bi' = bi + 1
                /\ j' = 1
                /\ seed' = StartSeed
                /\ tmpOcc' = << >>
           ELSE /\ tmpOcc' = Append(tmpOcc, n)
                /\ j' = j + 1
                /\ UNCHANGED <<level0, bi, seed>>
  /\ UNCHANGED <<inputVars, pc, level0Len, level1Len, buckets, keyHashes, res, codecVars, bloomVars>>

\* one iteration whose slot is occupied: roll back, next seed, goto trySeed
TrialFail ==
  /\ pc = "place"
  /\ bi <= Len(buckets)
  /\ seed < MaxSeed
  /\ LET bucket == buckets[bi]
         i == bucket.vals[j]
         n == Slot(seed, keys[i + 1], level1Len)
     IN /\ occ[n]
        /\ occ' = RollBack(occ, tmpOcc)
        /\ seed' = seed + 1
        /\ tmpOcc' = << >>
        /\ j' = 1
  /\ UNCHANGED <<inputVars, pc, level0, level0Len, level1, level1Len, buckets, bi,
                 keyHashes, res, codecVars, bloomVars>>

Finish ==
  /\ pc = "place"
  /\ bi > Len(buckets)
  /\ keyHashes' = [i \in 0..(Len(keys) - 1) |-> fnvTable[keys[i + 1]]]
  /\ pc' = "built"
  /\ UNCHANGED <<inputVars, level0, level0Len, level1, level1Len, buckets, bi, j,
                 seed, occ, tmpOcc, res, codecVars, bloomVars>>

(***************************************************************************)
(* Lookup.                                                                 *)
(***************************************************************************)
Fault == [n |-> 0, ok |-> FALSE, fault |-> TRUE]

Lookup(t, s) ==
  IF t.level0Len = 0 THEN Fault
  ELSE LET i0 == Hash(0, s) % t.level0Len
       IN IF i0 \notin DOMAIN t.level0 \/ t.level1Len = 0 THEN Fault
          ELSE LET i1 == Hash(t.level0[i0], s) % t.level1Len
               IN IF i1 \notin DOMAIN t.level1 THEN Fault
                  ELSE LET n == t.level1[i1]
                       IN IF n \notin DOMAIN t.keyHashes THEN Fault
                          ELSE [n |-> n, ok |-> fnv64a(s) = t.keyHashes[n],
                                fault |-> FALSE]

Table == [keyHashes |-> keyHashes, level0 |-> level0, level0Len |-> level0Len,
          level1 |-> level1, level1Len |-> level1Len]

ZeroTable == [keyHashes |-> << >>, level0 |-> << >>, level0Len |-> 0,
              level1 |-> << >>, level1Len |-> 0]

NoRes == [s |-> << >>, n |-> 0, ok |-> FALSE, fault |-> FALSE, done |-> FALSE]

LookupCall ==
  /\ pc = "built"
  /\ \E s \in Strs :
       LET r == Lookup(Table, s)
       IN res' = [s |-> s, n |-> r.n, ok |-> r.ok, fault |-> r.fault, done |-> TRUE]
  /\ UNCHANGED <<inputVars, buildVars, codecVars, bloomVars>>

(***************************************************************************)
(* Specification of Build and Lookup.                                      *)
(***************************************************************************)
Prefix(n) == SubSeq(AllKeys, 1, n)

\* the strings whose hash varies over the runs: the keys and, for the small
\* inputs, `extra` absent strings
Hashed(n, extra) == {AllKeys[k] : k \in 1..(IF n + extra < Len(AllKeys) THEN n + extra ELSE n)}

InitBuild ==
  /\ pc = "start"
  /\ level0 = << >>
  /\ level0Len = 0
  /\ level1 = << >>
  /\ level1Len = 0
  /\ buckets = << >>
  /\ bi = 1
  /\ j = 1
  /\ seed = 0
  /\ occ = << >>
  /\ tmpOcc = << >>
  /\ keyHashes = << >>
  /\ res = NoRes
  /\ data = << >>
  /\ dkind = "none"
  /\ recv = ZeroTable
  /\ uerr = "none"
  /\ filter = {}
  /\ curLf = 0
  /\ seenKeys = {}
  /\ nilAt = << >>
  /\ ret = "none"

InitInputs(ins, extra) ==
  /\ \E in \in ins : keys = Prefix(in[1]) /\ loadFactor = in[2]
  /\ ha \in [Strs -> 0..(HashRange - 1)]
  /\ hb \in [Strs -> Strides]
  /\ \A s \in Strs \ Hashed(Len(keys), extra) : ha[s] = 0 /\ hb[s] = 1

Init == InitInputs(Inputs, 1) /\ InitBuild

Next == BuildStart \/ PlaceKey \/ TrialFail \/ Finish \/ LookupCall

Spec == Init /\ [][Next]_vars

(***************************************************************************)
(* Codec: MarshalBinary and UnmarshalBinary (fingerprint variant).  A      *)
(* buffer is a sequence of bytes; offset k of the buffer is element k + 1. *)
(***************************************************************************)
word == 64
bpw == word \div 8
bphw == word \div 16
ver == 1

NumElems(f) == Cardinality(DOMAIN f)

\* uint64(n) of a non-negative int below 2^31, as limbs
U64(n) == <<n % 65536, (n \div 65536) % 65536, 0, 0>>

\* int(v) of a uint64 whose value is below 2^31 (every buffer of the model
\* declares lengths below 2^31)
IntOf(v) == v[1] + 65536 * v[2]

\* big-endian byte order
BigEndianBytes32(v) ==
  <<(v \div 16777216) % 256, (v \div 65536) % 256, (v \div 256) % 256, v % 256>>

\* binary.LittleEndian.PutUint32: the four bytes of v
Bytes32(v) ==
  <<v % 256, (v \div 256) % 256, (v \div 65536) % 256, (v \div 16777216) % 256>>

\* binary.LittleEndian.PutUint64: the eight bytes of v
Bytes64(v) ==
  <<v[1] % 256, v[1] \div 256, v[2] % 256, v[2] \div 256,
    v[3] % 256, v[3] \div 256, v[4] % 256, v[4] \div 256>>

\* copy of the bytes bs into d at offset off
Put(d, off, bs) ==
  [k \in 1..Len(d) |-> IF k - 1 >= off /\ k - 1 < off + Len(bs) THEN bs[k - off] ELSE d[k]]

\* binary.LittleEndian.Uint32(d[off:])
Uint32At(d, off) ==
  d[off + 1] + 256 * d[off + 2] + 65536 * d[off + 3] + 16777216 * d[off + 4]

\* binary.LittleEndian.Uint64(d[off:])
Uint64At(d, off) ==
  <<d[off + 1] + 256 * d[off + 2], d[off + 3] + 256 * d[off + 4],
    d[off + 5] + 256 * d[off + 6], d[off + 7] + 256 * d[off + 8]>>

RECURSIVE PutAll64(_, _, _, _)
\* "for i, kh := range f { PutUint64(data[start+i*bpw:], kh) }" from index i on
PutAll64(d, start, f, i) ==
  IF i >= NumElems(f) THEN d
  ELSE PutAll64(Put(d, start + i * bpw, Bytes64(f[i])), start, f, i + 1)

RECURSIVE PutAll32(_, _, _, _)
\* "for i, v := range f { PutUint32(data[start+i*bphw:], v) }" from index i on
PutAll32(d, start, f, i) ==
  IF i >= NumElems(f) THEN d
  ELSE PutAll32(Put(d, start + i * bphw, Bytes32(f[i])), start, f, i + 1)

\* the offset advanced by the width of a level1 entry
Level1StartWide(t, start0) == start0 + NumElems(t.level0) * bpw

\* "start += len(t.level0) * bphw"
Level1Start(t, start0) == start0 + NumElems(t.level0) * bphw

MarshalBinary(t) ==
  LET size == (1 + NumElems(t.keyHashes) + 1 + 1) * bpw
                + (t.level0Len + t.level1Len) * bphw + 1
      d0 == [k \in 1..size |-> 0]
      d1 == Put(d0, 0, <<ver>>)
      d2 == Put(d1, 1, Bytes64(U64(NumElems(t.keyHashes))))
      d3 == Put(d2, 1 + bpw, Bytes64(U64(t.level0Len)))
      d4 == Put(d3, 1 + 2 * bpw, Bytes64(U64(t.level1Len)))
      start1 == 1 + 3 * bpw
      d5 == PutAll64(d4, start1, t.keyHashes, 0)
      start2 == start1 + NumElems(t.keyHashes) * bpw
      d6 == PutAll32(d5, start2, t.level0, 0)
      start3 == Level1Start(t, start2)
  IN PutAll32(d6, start3, t.level1, 0)

\* the length the header of d declares
DeclaredLen(d) ==
  (1 + IntOf(Uint64At(d, 1)) + 1 + 1) * bpw
    + (IntOf(Uint64At(d, 1 + bpw)) + IntOf(Uint64At(d, 1 + 2 * bpw))) * bphw + 1

\* the result of t.UnmarshalBinary(d): the receiver afterwards and the error
UnmarshalBinary(t, d) ==
  IF Len(d) < 1 + 3 * bpw THEN [t |-> t, err |-> "short"]
  ELSE IF d[1] # ver THEN [t |-> t, err |-> "version"]
  ELSE LET keyHashesLen == IntOf(Uint64At(d, 1))
           t1 == [t EXCEPT !.level0Len = IntOf(Uint64At(d, 1 + bpw)),
                           !.level1Len = IntOf(Uint64At(d, 1 + 2 * bpw))]
       IN IF Len(d) < (1 + keyHashesLen + 1 + 1) * bpw
                        + (t1.level0Len + t1.level1Len) * bphw + 1
          THEN [t |-> t1, err |-> "short"]
          ELSE LET start1 == 1 + 3 * bpw
                   start2 == start1 + keyHashesLen * bpw
                   start3 == start2 + t1.level0Len * bphw
               IN [t |-> [t1 EXCEPT
                     !.keyHashes = [i \in 0..(keyHashesLen - 1) |->
                                      Uint64At(d, start1 + i * bpw)],
                     !.level0 = [i \in 0..(t1.level0Len - 1) |->
                                   Uint32At(d, start2 + i * bphw)],
                     !.level1 = [i \in 0..(t1.level1Len - 1) |->
                                   Uint32At(d, start3 + i * bphw)]],
                   err |-> "nil"]

Errors == {"short", "version"}

\* t.MarshalBinary() of the Table Build returned
MarshalCall ==
  /\ pc = "built"
  /\ dkind = "none"
  /\ data' = MarshalBinary(Table)
  /\ dkind' = "marshal"
  /\ uerr' = "none"
  /\ UNCHANGED <<inputVars, buildVars, res, recv, bloomVars>>

\* the buffer loses its tail
DataTruncate ==
  /\ dkind = "marshal"
  /\ \E n \in 0..(Len(data) - 1) : data' = SubSeq(data, 1, n)
  /\ dkind' = "cut"
  /\ uerr' = "none"
  /\ UNCHANGED <<inputVars, buildVars, res, recv, bloomVars>>

\* the buffer gets another version byte
DataVersion ==
  /\ dkind = "marshal"
  /\ \E v \in {0, 2} : data' = Put(data, 0, <<v>>)
  /\ dkind' = "version"
  /\ uerr' = "none"
  /\ UNCHANGED <<inputVars, buildVars, res, recv, bloomVars>>

\* the buffer gets trailing bytes
DataTrailing ==
  /\ dkind = "marshal"
  /\ \E bs \in {<<0>>, <<255>>, <<0, 0, 0, 0>>} : data' = data \o bs
  /\ dkind' = "trailing"
  /\ uerr' = "none"
  /\ UNCHANGED <<inputVars, buildVars, res, recv, bloomVars>>

\* a length field of the header declares one element more
DataHeader ==
  /\ dkind = "marshal"
  /\ \E off \in {1, 1 + bpw, 1 + 2 * bpw} :
       data' = Put(data, off, <<(data[off + 1] + 1) % 256>>)
  /\ dkind' = "header"
  /\ uerr' = "none"
  /\ UNCHANGED <<inputVars, buildVars, res, recv, bloomVars>>

\* recv.UnmarshalBinary(data)
UnmarshalCall ==
  /\ dkind # "none"
  /\ LET r == UnmarshalBinary(recv, data)
     IN recv' = r.t /\ uerr' = r.err
  /\ UNCHANGED <<inputVars, buildVars, res, data, dkind, bloomVars>>

\* the keys and load factors of the codec runs
CodecInputs == {<<0, 1000000>>, <<1, 250000>>, <<2, 250000>>, <<3, 375000>>}

InitCodec == InitInputs(CodecInputs, 0) /\ InitBuild

NextCodec ==
  \/ BuildStart \/ PlaceKey \/ TrialFail \/ Finish
  \/ MarshalCall \/ DataTruncate \/ DataVersion \/ DataTrailing \/ DataHeader
  \/ UnmarshalCall

SpecCodec == InitCodec /\ [][NextCodec]_vars

(***************************************************************************)
(* Build and buildInternal (Bloom-filter variant).                         *)
(***************************************************************************)
\* the factor 0.9 and the floor 0.1 of the retry loop
DecayNum == 9
DecayDen == 10
LfMin == 100000

\* "loadFactor *= 0.9"
Decayed(lf) == (lf * DecayNum) \div DecayDen

\* a retry loop that gives up at the first exhaustion
GiveUpAlways(lf) == TRUE

\* "if loadFactor < 0.1"
GiveUp(lf) == lf < LfMin

\* Build up to the retry loop: the filter gets every key, the load factor is clamped
BloomBuild ==
  /\ pc = "bstart"
  /\ filter' = Range(keys)
  /\ curLf' = Clamp(loadFactor)
  /\ pc' = "binternal"
  /\ UNCHANGED <<inputVars, level0, level0Len, level1, level1Len, buckets, bi, j, seed,
                 occ, tmpOcc, keyHashes, res, codecVars, seenKeys, nilAt, ret>>

\* buildInternal up to the placement loop
InternalStart ==
  /\ pc = "binternal"
  /\ LET tableLen == TableLen(Len(keys), curLf)
         m0 == tableLen \div 4
     IN IF m0 = 0 /\ Len(keys) > 0
        THEN \* integer divide by zero at "% level0Len"
             /\ pc' = "bpanic"
             /\ UNCHANGED <<level0, level0Len, level1, level1Len, buckets, bi, j,
                            seed, occ, tmpOcc, seenKeys>>
        ELSE /\ level0' = [n \in 0..(m0 - 1) |-> 0]
             /\ level0Len' = m0
             /\ level1' = [n \in 0..(tableLen - 1) |-> 0]
             /\ level1Len' = tableLen
             /\ buckets' \in SortedBySize(NonEmpty(SparseBuckets(keys, m0)))
             /\ occ' = [n \in 0..(tableLen - 1) |-> FALSE]
             /\ tmpOcc' = << >>
             /\ seenKeys' = {}
             /\ bi' = 1
             /\ j' = 1
             /\ seed' = StartSeed
             /\ pc' = "bplace"
  /\ UNCHANGED <<inputVars, keyHashes, res, codecVars, filter, curLf, nilAt, ret>>

\* one iteration whose slot is free or held by the same key string
InternalPlaceKey ==
  /\ pc = "bplace"
  /\ bi <= Len(buckets)
  /\ LET bucket == buckets[bi]
         i == bucket.vals[j]
         n == Slot(seed, keys[i + 1], level1Len)
     IN /\ ~occ[n] \/ keys[i + 1] \in seenKeys
        /\ occ' = [occ EXCEPT ![n] = TRUE]
        /\ level1' = WriteLevel1(level1, n, i)
        /\ IF j = Len(bucket.vals)
           THEN /\ level0' = StoreSeed(level0, bucket.n, seed)
                /\ bi' = bi + 1
                /\ j' = 1
                /\ seed' = StartSeed
                /\ tmpOcc' = << >>
                /\ seenKeys' = {}
           ELSE /\ tmpOcc' = Append(tmpOcc, n)
                /\ seenKeys' = seenKeys \cup {keys[i + 1]}
                /\ j' = j + 1
                /\ UNCHANGED <<level0, bi, seed>>
  /\ UNCHANGED <<inputVars, pc, level0Len, level1Len, buckets, keyHashes, res, codecVars,
                 filter, curLf, nilAt, ret>>

\* one iteration whose slot is held by another key, with seeds left
InternalTrialFail ==
  /\ pc = "bplace"
  /\ bi <= Len(buckets)
  /\ LET bucket == buckets[bi]
         i == bucket.vals[j]
         n == Slot(seed, keys[i + 1], level1Len)
     IN /\ occ[n] /\ keys[i + 1] \notin seenKeys
        /\ seed + 1 <= maxSeedAttempts
        /\ occ' = RollBack(occ, tmpOcc)
        /\ seed' = seed + 1
        /\ tmpOcc' = << >>
        /\ seenKeys' = {}
        /\ j' = 1
  /\ UNCHANGED <<inputVars, pc, level0, level0Len, level1, level1Len, buckets, bi,
                 keyHashes, res, codecVars, filter, curLf, nilAt, ret>>

\* one iteration whose slot is held by another key, the seed budget spent:
\* buildInternal returns nil
InternalExhausted ==
  /\ pc = "bplace"
  /\ bi <= Len(buckets)
  /\ LET bucket == buckets[bi]
         i == bucket.vals[j]
         n == Slot(seed, keys[i + 1], level1Len)
     IN /\ occ[n] /\ keys[i + 1] \notin seenKeys
        /\ seed + 1 > maxSeedAttempts
        /\ occ' = RollBack(occ, tmpOcc)
        /\ seed' = seed + 1
  /\ nilAt' = Append(nilAt, curLf)
  /\ pc' = "bretry"
  /\ UNCHANGED <<inputVars, level0, level0Len, level1, level1Len, buckets, bi, j, tmpOcc,
                 keyHashes, res, codecVars, filter, curLf, seenKeys, ret>>

\* every bucket is placed: buildInternal returns the Table, Build returns it
InternalFinish ==
  /\ pc = "bplace"
  /\ bi > Len(buckets)
  /\ pc' = "bbuilt"
  /\ ret' = "table"
  /\ UNCHANGED <<inputVars, level0, level0Len, level1, level1Len, buckets, bi, j, seed,
                 occ, tmpOcc, keyHashes, res, codecVars, filter, curLf, seenKeys, nilAt>>

\* table == nil: reduce the load factor, give up below the floor
BloomRetry ==
  /\ pc = "bretry"
  /\ curLf' = Decayed(curLf)
  /\ IF GiveUp(Decayed(curLf))
     THEN pc' = "berror" /\ ret' = "error"
     ELSE pc' = "binternal" /\ UNCHANGED ret
  /\ UNCHANGED <<inputVars, level0, level0Len, level1, level1Len, buckets, bi, j, seed,
                 occ, tmpOcc, keyHashes, res, codecVars, filter, seenKeys, nilAt>>

KeyA == AllKeys[1]
KeyB == AllKeys[2]
KeyC == AllKeys[3]

\* the inputs of the Bloom-filter Build: <<keys, load factor>>
BloomInputs == {<< << >>, 2000000 >>, << <<KeyA>>, 1000000 >>, << <<KeyA>>, 125000 >>,
                << <<KeyA, KeyB>>, 0 >>, << <<KeyA, KeyB>>, 500000 >>,
                << <<KeyA, KeyA>>, 500000 >>, << <<KeyA, KeyB>>, 50000 >>,
                << <<KeyA, KeyB, KeyC>>, 600000 >>}

InitBloom ==
  /\ \E in \in BloomInputs : keys = in[1] /\ loadFactor = in[2]
  /\ ha \in [Strs -> 0..(HashRange - 1)]
  /\ hb \in [Strs -> Strides]
  /\ \A s \in Strs \ Range(keys) : ha[s] = 0 /\ hb[s] = 1
  /\ pc = "bstart"
  /\ level0 = << >>
  /\ level0Len = 0
  /\ level1 = << >>
  /\ level1Len = 0
  /\ buckets = << >>
  /\ bi = 1
  /\ j = 1
  /\ seed = 0
  /\ occ = << >>
  /\ tmpOcc = << >>
  /\ keyHashes = << >>
  /\ res = NoRes
  /\ data = << >>
  /\ dkind = "none"
  /\ recv = ZeroTable
  /\ uerr = "none"
  /\ filter = {}
  /\ curLf = 0
  /\ seenKeys = {}
  /\ nilAt = << >>
  /\ ret = "none"

NextBloom ==
  \/ BloomBuild \/ InternalStart \/ InternalPlaceKey \/ InternalTrialFail
  \/ InternalExhausted \/ InternalFinish \/ BloomRetry

SpecBloom == InitBloom /\ [][NextBloom]_vars

\* Build is sequential code: once called it keeps running until it returns
\* or faults
SpecBloomFair == SpecBloom /\ WF_vars(NextBloom)

\* the Build of either variant
InitBuilds == Init \/ InitBloom

NextBuilds == Next \/ NextBloom

SpecBuilds == InitBuilds /\ [][NextBuilds]_vars

(***************************************************************************)
(* Properties of Build and Lookup.                                         *)
(***************************************************************************)
NumKeys == Len(keys)
KeysDistinct == \A x, y \in 1..Len(keys) : x # y => keys[x] # keys[y]
OccSet == {n \in DOMAIN occ : occ[n]}
InputIndex(s) == CHOOSE i \in 0..(NumKeys - 1) : keys[i + 1] = s

\* the level1 slots of the keys of the buckets placed before position b,
\* under the seeds level0 records for them
PlacedSlots(b) ==
  UNION {{Hash(level0[buckets[c].n], keys[i + 1]) % level1Len : i \in Range(buckets[c].vals)} :
           c \in 1..(b - 1)}

RECURSIVE PlacedCount(_)
PlacedCount(b) == IF b <= 1 THEN 0 ELSE Len(buckets[b - 1].vals) + PlacedCount(b - 1)

\* seed sd puts the keys of the bucket at position b on pairwise distinct
\* slots that no bucket placed earlier holds
GoodSeed(b, sd) ==
  LET vals == buckets[b].vals
      slot(i) == Hash(sd, keys[i + 1]) % level1Len
  IN /\ \A x, y \in 1..Len(vals) : x # y => slot(vals[x]) # slot(vals[y])
     /\ \A x \in 1..Len(vals) : slot(vals[x]) \notin PlacedSlots(b)

\* C1: when Build returns a Table for distinct keys with m0 >= 1, Lookup of
\* every input key k_i returns (i, true), whatever failed trials and later
\* buckets wrote into level1.
C1_LookupFindsEveryInput ==
  (pc = "built" /\ level0Len >= 1) =>
     /\ \A i \in 0..(NumKeys - 1) :
          /\ level1[Hash(level0[Hash(0, keys[i + 1]) % level0Len], keys[i + 1]) % level1Len] = i
          /\ Lookup(Table, keys[i + 1]) = [n |-> i, ok |-> TRUE, fault |-> FALSE]
     /\ (res.done /\ res.s \in Range(keys)) =>
          (res.n = InputIndex(res.s) /\ res.ok /\ ~res.fault)

\* an input key was looked up in a table of several buckets that holds an
\* entry written by a trial that was rolled back
C1_Witness ==
  /\ pc = "built"
  /\ Len(buckets) >= 2
  /\ \E n \in DOMAIN level1 : ~occ[n] /\ level1[n] # 0
  /\ res.done /\ res.s \in Range(keys) /\ res.ok /\ res.n > 0

\* C2: Build and Lookup complete without a runtime fault on the degenerate
\* sizes with m0 = 0: Build returns a Table, and Lookup on the empty Table
\* returns (0, false).
C2_NoFaultOnDegenerateSizes ==
  (TableLen(NumKeys, Clamp(loadFactor)) \div 4 = 0) =>
     /\ pc # "panic"
     /\ res.done => (~res.fault /\ (NumKeys = 0 => (res.n = 0 /\ ~res.ok)))

\* C6: in a Table either Build returns for distinct keys, level0[b] of each
\* placed bucket is the smallest seed, counted from 0, that puts its keys on
\* pairwise distinct slots free of earlier buckets; level0 is 0 at every
\* index no key hashed to.
C6_SmallestSeed ==
  (pc \in {"built", "bbuilt"} /\ KeysDistinct) =>
     /\ \A b \in 1..Len(buckets) :
          /\ GoodSeed(b, level0[buckets[b].n])
          /\ \A sd \in 0..(level0[buckets[b].n] - 1) : ~GoodSeed(b, sd)
     /\ \A n \in DOMAIN level0 :
          (\A i \in 0..(NumKeys - 1) : Hash(0, keys[i + 1]) % level0Len # n) => level0[n] = 0

\* a table with a bucket placed at a seed above 0 and an unused level0 index
C6_Witness ==
  /\ pc \in {"built", "bbuilt"}
  /\ KeysDistinct
  /\ \E b \in 1..Len(buckets) : level0[buckets[b].n] >= 1
  /\ \E n \in DOMAIN level0 : \A b \in 1..Len(buckets) : buckets[b].n # n

\* C7: the occupied slots are exactly the slots of the placed buckets plus
\* the slots the running trial has set; at the start of a trial (after a
\* rollback too) they are exactly the slots of the placed buckets, whose
\* number is the number of placed keys.
C7_RollbackExact ==
  (pc \in {"place", "built"}) =>
     /\ OccSet = PlacedSlots(bi) \cup Range(tmpOcc)
     /\ PlacedSlots(bi) \cap Range(tmpOcc) = {}
     /\ Cardinality(Range(tmpOcc)) = Len(tmpOcc)
     /\ Cardinality(PlacedSlots(bi)) = PlacedCount(bi)
     /\ (j = 1 => OccSet = PlacedSlots(bi))

\* a trial of a later bucket starts after a rollback that cleared a bit
C7_Witness ==
  /\ pc = "place"
  /\ bi >= 2 /\ bi <= Len(buckets)
  /\ j = 1 /\ seed >= 1
  /\ \E n \in DOMAIN level1 :
       ~occ[n] /\ level1[n] # 0 /\ level1[n] \in Range(buckets[bi].vals)

\* C8: in a Table built from N >= 1 keys every level1 entry is in [0, N), so
\* the candidate of any Lookup is in [0, N) and keyHashes[candidate] exists.
C8_Level1InRange ==
  (pc = "built" /\ NumKeys >= 1) =>
     /\ \A n \in DOMAIN level1 : level1[n] \in 0..(NumKeys - 1)
     /\ \A s \in Strs : ~Lookup(Table, s).fault /\ Lookup(Table, s).n \in DOMAIN keyHashes
     /\ res.done => (~res.fault /\ res.n \in 0..(NumKeys - 1))

\* a string that is no input was looked up in a table with a slot never
\* occupied and an entry left by a rolled-back trial
C8_Witness ==
  /\ pc = "built" /\ NumKeys >= 1
  /\ res.done /\ res.s \notin Range(keys)
  /\ \E n \in DOMAIN level1 : ~occ[n] /\ level1[n] # 0
  /\ \E n \in DOMAIN level1 : ~occ[n] /\ level1[n] = 0

(***************************************************************************)
(* Properties of the codec.                                                *)
(***************************************************************************)
\* C3: UnmarshalBinary of MarshalBinary(T), T returned by Build, succeeds
\* and yields the fields of T, so Lookup answers every query as T does.
C3_RoundTrip ==
  (pc = "built" /\ dkind = "marshal" /\ uerr # "none") =>
     /\ uerr = "nil"
     /\ recv.level0Len = level0Len /\ recv.level1Len = level1Len
     /\ recv.level0 = level0 /\ recv.level1 = level1
     /\ recv.keyHashes = keyHashes
     /\ \A s \in Strs : Lookup(recv, s) = Lookup(Table, s)

\* a Table of several keys with a seed above 0 went through the codec
C3_Witness ==
  /\ pc = "built" /\ dkind = "marshal" /\ uerr = "nil"
  /\ NumKeys >= 2
  /\ \E n \in DOMAIN level0 : level0[n] >= 1
  /\ \E n \in DOMAIN level1 : level1[n] >= 1

\* C4: UnmarshalBinary returns an error for every buffer shorter than 25
\* bytes, with a version byte other than 1, or whose length differs from the
\* length its header declares (longer buffers included).
C4_RejectsMalformed ==
  (uerr # "none") =>
     ((IF Len(data) < 25 THEN TRUE
       ELSE IF data[1] # 1 THEN TRUE
       ELSE Len(data) # DeclaredLen(data)) => uerr \in Errors)

\* C10: an UnmarshalBinary call that returns an error leaves every field of
\* the receiver as it was.
C10_ErrorLeavesReceiver ==
  [][(UnmarshalCall /\ uerr' \in Errors) => recv' = recv]_vars

(***************************************************************************)
(* Properties of the Bloom-filter Build.                                   *)
(***************************************************************************)
RECURSIVE DecayAt(_, _)
\* the load factor after k reductions by 0.9
DecayAt(lf, k) == IF k = 0 THEN lf ELSE (DecayAt(lf, k - 1) * 9) \div 10

RECURSIVE DecayCount(_)
\* how many load factors of the sequence lf, 0.9 lf, ... are >= 0.1
DecayCount(lf) == IF lf < 100000 THEN 0 ELSE 1 + DecayCount((lf * 9) \div 10)

\* C5: Build returns the error only after the seed budget was exhausted at
\* every load factor >= 0.1 of the decay sequence; every exhaustion restarts
\* from sizing with the reduced load factor; the first attempt that places
\* every bucket is returned; nothing is returned along with the error.
C5_ErrorOnlyAfterAllRetries ==
  LET start == Clamp(loadFactor)
  IN /\ \A k \in 1..Len(nilAt) : nilAt[k] = DecayAt(start, k - 1)
     /\ (pc \in {"binternal", "bplace", "bbuilt"}) => curLf = DecayAt(start, Len(nilAt))
     /\ (pc \in {"bplace", "bbuilt"}) =>
          (level1Len = TableLen(NumKeys, curLf) /\ level0Len = level1Len \div 4)
     /\ (ret = "error") =>
          /\ pc = "berror"
          /\ Len(nilAt) >= DecayCount(start)
          /\ Len(nilAt) >= 1
          /\ curLf < 100000
     /\ (ret = "table") =>
          /\ pc = "bbuilt"
          /\ bi > Len(buckets)
          /\ Len(nilAt) < DecayCount(start) \/ Len(nilAt) = 0
     /\ (pc = "berror") => ret = "error"
     /\ (pc = "bbuilt") => ret = "table"

\* the error came after more than two exhausted load factors
C5_Witness == ret = "error" /\ Len(nilAt) >= 3

\* C9: Build terminates on every input, returning a Table or the build error.
C9_BuildTerminates == <>(ret \in {"table", "error"})

\* on the inputs that do not fault at sizing, Build returns a Table or the error
BloomTerminatesUnlessFault == <>(ret \in {"table", "error"} \/ pc = "bpanic")

\* the seed counter stays within the budget while a trial runs
BloomSeedWithinBudget == (pc = "bplace") => seed <= maxSeedAttempts

====
